---- MODULE Spec2Model ----
(***************************************************************************)
(* Continuous model lifecycle of the comment-moderation backend:           *)
(*   - PredictionService  (app/services/prediction_service.py)             *)
(*   - RetrainingService  (app/services/retraining_service.py)             *)
(*   - retrain_model task (app/workers/tasks.py)                           *)
(*   - rollback endpoint  (app/routers/model.py)                           *)
(*   - ValidationService  (app/services/validation_service.py)             *)
(***************************************************************************)
EXTENDS Integers, FiniteSets, Sequences, TLC

(***************************************************************************)
(* Bounds of the model.                                                    *)
(***************************************************************************)
MaxNow == 2
MaxTrain == 2
MaxBatch == 1
MaxFails == 2
MaxItems == 1
MaxUsers == 1
MaxObjs == 2
MaxClock == 7
MaxRows == 2
MaxIds == 2
MaxCorpus == 2

(***************************************************************************)
(* Values.                                                                 *)
(***************************************************************************)
NULL == 0

\* validation_service.py line 32
UNDO_WINDOW_SECONDS == 5

\* processes: Celery retraining tasks, rollback requests, direct callers of
\* reload_model, and prediction requests
Runs == {"run1", "run2"}
Rollbacks == {"rb1"}
Swappers == {"hs1", "hs2"}
Predictors == {"pr1"}
Callers == Runs \cup Rollbacks \cup Swappers

Sessions == Runs \cup Rollbacks

\* scan results (the items feedback is about) and users
Items == 1..MaxItems
Users == 1..MaxUsers
MissingItem == 0
ItemPred(item) == item % 2 = 1
ItemText(item) == item

\* file-system paths.  A version string is the deploy's timestamp, and the
\* artifact of version string t is model_dir/model_v<t>.joblib
NoPath == -2
MissingPath == -1
ActivePath == 0
VerPath(version) == version
Paths == {ActivePath} \cup (1..MaxNow)

\* file contents: the serialized model they hold
NoFile == 0
BaseArt == 1

\* model objects in memory: identity and the artifact they were loaded from
None == [obj |-> 0, art |-> 0]

\* comment texts: those of the scan results and one no scan result has
OtherText == MaxItems + 1
Texts == {ItemText(item) : item \in Items} \cup {OtherText}
\* the rows of df_all.csv when a retrain_model task runs
BaseCorpus == <<[comment |-> OtherText, label |-> 0]>>
\* the configured retraining threshold (config.py line 71, 100 by default) on
\* the scale of the model
retraining_threshold == 2
\* what starts a retrain_model task: the only retrain_model.delay of the
\* application, routers/model.py line 307
Trigger == "manual"
\* retraining_service.py line 541
min_training_samples == 100
\* get_training_data before its first call
NoData == [calls |-> 0, corpus |-> <<>>, validations |-> <<>>, data |-> <<>>]

VARIABLES
    now,            \* wall clock, in seconds
    versions,       \* model_versions table: sequence of rows, row id = index
    verArt,         \* history: the artifact each version row was deployed with
    feedback,       \* validation_feedback table: set of rows
    nextFb,         \* next feedback row id
    fbResult,       \* outcome of the last ValidationService call
    vcalls,         \* ValidationService: the last request, calls in progress
    training,       \* RetrainingService.get_training_data: the last call
    files,          \* artifact storage: path -> content
    nextTrain,      \* next trained-model artifact
    model,          \* PredictionService._model
    model_path,     \* PredictionService._model_path
    is_reloading,   \* PredictionService._is_reloading
    installed,      \* history: object put in place by the latest swap
    streak,         \* history: failed reload_model calls in a row
    hs,             \* reload_model calls, per caller
    pr,             \* predict_single / predict_batch calls
    run,            \* retrain_model tasks
    rb,             \* rollback requests
    tx              \* open database transaction of each session

coreVars == <<model, model_path, is_reloading, installed, streak>>
dbVars == <<versions, verArt, feedback, nextFb, fbResult, vcalls, training>>
vars == <<now, versions, verArt, feedback, nextFb, fbResult, vcalls, training, files, nextTrain,
          model, model_path, is_reloading, installed, streak, hs, pr, run, rb, tx>>

lifeVars == <<now, versions, verArt, feedback, nextFb, fbResult, vcalls, training, nextTrain,
              run, rb, tx>>

Exists(path) == path \in DOMAIN files /\ files[path] # NoFile

(***************************************************************************)
(* What a retraining run must not change when it fails                     *)
(***************************************************************************)
ActiveSet(vs) == {v \in DOMAIN vs : vs[v].is_active}
FbFlags(fb) == {<<f.id, f.used_in_training, f.model_version_id>> : f \in fb}
Obs == <<ActiveSet(versions), FbFlags(feedback), model>>

RunIdle == [pc |-> "idle", art |-> 0, version |-> 0, ver |-> NULL,
            outcome |-> "none", raised |-> FALSE,
            unusedAtStart |-> {}, usedAtStart |-> {}, activeAtStart |-> {},
            touched |-> FALSE, small |-> FALSE, progress |-> -1,
            triggered_by |-> "none", reason |-> "none", data |-> {}]
RbIdle == [pc |-> "idle", target |-> NULL, outcome |-> "none"]
NoTx == [deact |-> {}, at |-> 0, wait |-> {}]

\* history: a step of retraining task c that changes the active version, a
\* feedback row's flags or the model served is recorded with the task
Touch(c) ==
    IF c \in Runs /\ Obs' # Obs THEN [run EXCEPT ![c].touched = TRUE] ELSE run

\* a re-submitted row is no longer the row a deploy in progress saw
Forget(rs, id) ==
    [r \in Runs |->
        [rs[r] EXCEPT !.unusedAtStart = @ \ {id},
                      !.usedAtStart = {u \in @ : u[1] # id},
                      !.data = @ \ {id}]]

(***************************************************************************)
(* PredictionService.reload_model (hot swap)                               *)
(***************************************************************************)
HsIdle == [pc |-> "idle", arg |-> NoPath, path |-> NoPath, new |-> None,
           result |-> FALSE, rejected |-> FALSE, locked |-> FALSE,
           entryModel |-> None, entryPath |-> NoPath, disturbed |-> FALSE]

\* history kept with a call: what (_model, _model_path) were when it started
Entered(c, p, pc) ==
    [HsIdle EXCEPT !.pc = pc, !.arg = p, !.rejected = (pc = "ret"),
                   !.entryModel = model, !.entryPath = model_path]

NoStreak == [n |-> 0, model |-> None, path |-> NoPath]

\* _model_lock (line 64) can be taken by c: no other call holds it
LockFree(c) == \A d \in Callers \ {c} : ~hs[d].locked

\* joblib.load builds a new object: its identity differs from that of every
\* object something still refers to.  At most MaxObjs objects are alive at a time
Referenced ==
    {model.obj, installed.obj, streak.model.obj}
    \cup {hs[c].new.obj : c \in Callers} \cup {hs[c].entryModel.obj : c \in Callers}
    \cup {pr[p].m.obj : p \in Predictors} \cup {pr[p].after : p \in Predictors}
FreshObj == CHOOSE n \in 1..(Cardinality(Referenced) + 1) : n \notin Referenced

\* every reload_model call in flight whose view of (_model, _model_path) is
\* changed by somebody else's step is flagged
Disturb(c) ==
    [d \in Callers |->
        IF d # c /\ hs[d].pc # "idle" /\ <<model, model_path>>' # <<model, model_path>>
        THEN [hs[d] EXCEPT !.disturbed = TRUE]
        ELSE hs[d]]

\* reload_model without the test of _is_reloading
HsEnterNoCheck(c, p) ==
    /\ hs[c].pc = "idle"
    /\ hs' = [hs EXCEPT ![c] = Entered(c, p, "entered")]
    /\ is_reloading' = TRUE
    /\ UNCHANGED <<model, model_path, installed, streak>>

\* reload_model keeping the lock from the test of _is_reloading to the swap
HsEnterHoldsLock(c, p) ==
    /\ hs[c].pc = "idle"
    /\ LockFree(c)
    /\ IF is_reloading
       THEN /\ hs' = [hs EXCEPT ![c] = Entered(c, p, "ret")]
            /\ UNCHANGED is_reloading
       ELSE /\ hs' = [hs EXCEPT ![c] = [Entered(c, p, "entered") EXCEPT !.locked = TRUE]]
            /\ is_reloading' = TRUE
    /\ UNCHANGED <<model, model_path, installed, streak>>

\* lines 143-148: test-and-set of _is_reloading under the lock
HsEnter(c, p) ==
    /\ hs[c].pc = "idle"
    /\ LockFree(c)
    /\ IF is_reloading
       THEN /\ hs' = [hs EXCEPT ![c] = Entered(c, p, "ret")]
            /\ UNCHANGED is_reloading
       ELSE /\ hs' = [hs EXCEPT ![c] = Entered(c, p, "entered")]
            /\ is_reloading' = TRUE
    /\ UNCHANGED <<model, model_path, installed, streak>>

\* lines 151-156
ResolvePath(p) ==
    IF p # NoPath THEN p
    ELSE IF model_path # NoPath THEN model_path
    ELSE ActivePath

\* reload_model recording the path before it checks the file, as load_model does
HsLoadSetsPath(c, loads) ==
    /\ hs[c].pc = "entered"
    /\ LET path == ResolvePath(hs[c].arg) IN
       /\ model_path' = path
       /\ \/ /\ ~Exists(path)
             /\ hs' = [hs EXCEPT ![c].pc = "finally", ![c].path = path, ![c].result = FALSE]
          \/ /\ Exists(path)
             /\ \E ok \in {b \in loads : b => FreshObj <= MaxObjs} :
                  IF ok
                  THEN hs' = [hs EXCEPT ![c].pc = "loaded", ![c].path = path,
                                        ![c].new = [obj |-> FreshObj, art |-> files[path]]]
                  ELSE hs' = [hs EXCEPT ![c].pc = "finally", ![c].path = path,
                                        ![c].result = FALSE]
    /\ UNCHANGED <<model, is_reloading, installed, streak>>

\* lines 151-169: resolve the path, check the file, load the new model; all of
\* it outside the lock.  joblib.load returns the model or throws: loads is the
\* set of outcomes it can have (TRUE: it returns)
HsLoad(c, loads) ==
    /\ hs[c].pc = "entered"
    /\ LET path == ResolvePath(hs[c].arg) IN
       \/ /\ ~Exists(path)
          /\ hs' = [hs EXCEPT ![c].pc = "finally", ![c].path = path, ![c].result = FALSE]
       \/ /\ Exists(path)
          /\ \E ok \in {b \in loads : b => FreshObj <= MaxObjs} :
               IF ok
               THEN hs' = [hs EXCEPT ![c].pc = "loaded", ![c].path = path,
                                     ![c].new = [obj |-> FreshObj, art |-> files[path]]]
               ELSE hs' = [hs EXCEPT ![c].pc = "finally", ![c].path = path,
                                     ![c].result = FALSE]
    /\ UNCHANGED <<model, model_path, is_reloading, installed, streak>>

\* reload_model recording the new path but not publishing the new object
HsSwapKeepsModel(c) ==
    /\ hs[c].pc = "loaded"
    /\ model_path' = hs[c].path
    /\ installed' = [obj |-> hs[c].new.obj, returned |-> FALSE]
    /\ streak' = NoStreak
    /\ hs' = [hs EXCEPT ![c].pc = "finally", ![c].result = TRUE]
    /\ UNCHANGED <<model, is_reloading>>

\* lines 171-181: swap the reference under the lock
HsSwap(c) ==
    /\ hs[c].pc = "loaded"
    /\ LockFree(c)
    /\ model' = hs[c].new
    /\ model_path' = hs[c].path
    /\ installed' = [obj |-> hs[c].new.obj, returned |-> FALSE]
    /\ streak' = NoStreak
    /\ hs' = [Disturb(c) EXCEPT ![c].pc = "finally", ![c].result = TRUE]
    /\ UNCHANGED is_reloading

\* reload_model clearing _is_reloading after the swap instead of in a finally
HsFinallyOnSuccess(c) ==
    /\ hs[c].pc = "finally"
    /\ LockFree(c)
    /\ is_reloading' = IF hs[c].result THEN FALSE ELSE is_reloading
    /\ hs' = [hs EXCEPT ![c].pc = "ret"]
    /\ installed' = IF hs[c].result /\ installed.obj = hs[c].new.obj
                    THEN [installed EXCEPT !.returned = TRUE]
                    ELSE installed
    /\ streak' = IF hs[c].result THEN streak
                 ELSE IF streak.n > 0
                      THEN [streak EXCEPT !.n = IF @ < MaxFails THEN @ + 1 ELSE @]
                 ELSE IF ~hs[c].disturbed
                      THEN [n |-> 1, model |-> hs[c].entryModel, path |-> hs[c].entryPath]
                 ELSE streak
    /\ UNCHANGED <<model, model_path>>

\* lines 183-185: the finally block, then the return
HsFinally(c) ==
    /\ hs[c].pc = "finally"
    /\ LockFree(c)
    /\ is_reloading' = FALSE
    /\ hs' = [hs EXCEPT ![c].pc = "ret"]
    /\ installed' = IF hs[c].result /\ installed.obj = hs[c].new.obj
                    THEN [installed EXCEPT !.returned = TRUE]
                    ELSE installed
    /\ streak' = IF hs[c].result THEN streak
                 ELSE IF streak.n > 0
                      THEN [streak EXCEPT !.n = IF @ < MaxFails THEN @ + 1 ELSE @]
                 ELSE IF ~hs[c].disturbed
                      THEN [n |-> 1, model |-> hs[c].entryModel, path |-> hs[c].entryPath]
                 ELSE streak
    /\ UNCHANGED <<model, model_path>>

\* a direct caller of reload_model takes the result and goes on
SwapperCall(c, p) ==
    /\ c \in Swappers
    /\ HsEnter(c, p)
    /\ UNCHANGED <<lifeVars, files, pr>>

SwapperReturn(c) ==
    /\ c \in Swappers
    /\ hs[c].pc = "ret"
    /\ hs' = [hs EXCEPT ![c] = HsIdle]
    /\ UNCHANGED <<lifeVars, files, coreVars, pr>>

\* the steps of a call in flight, whoever the caller is; a swap changes the
\* model served, which is recorded with the retraining task that made the call
HsStep(c, loads) ==
    \/ /\ HsLoad(c, loads)
       /\ UNCHANGED <<lifeVars, files, pr>>
    \/ /\ HsSwap(c)
       /\ UNCHANGED <<now, dbVars, nextTrain, rb, tx, files, pr>>
       /\ run' = Touch(c)
    \/ /\ HsFinally(c)
       /\ UNCHANGED <<lifeVars, files, pr>>

(***************************************************************************)
(* PredictionService.load_model, predict_single, predict_batch             *)
(***************************************************************************)
PrIdle == [pc |-> "idle", kind |-> "single", n |-> 0, m |-> None,
           atStart |-> 0, after |-> 0, predBy |-> 0, probaBy |-> 0,
           out |-> 0, error |-> FALSE, loading |-> FALSE]

\* lines 199-226 and 256-266: the call takes its own copy of the reference
\* under the lock, through load_model() (lines 87-113), which returns the
\* cached model or loads the default path
PredictRead(p, kind, n) ==
    /\ pr[p].pc = "idle"
    /\ (kind = "batch" /\ n = 0) \/ LockFree(p)
    /\ kind = "single" => n = 1
    /\ LET started == [PrIdle EXCEPT !.kind = kind, !.n = n, !.loading = is_reloading,
                          !.after = IF installed.returned THEN installed.obj ELSE 0]
       IN
       IF kind = "batch" /\ n = 0
       THEN \* line 256: empty batch returns [] without reading the model
            /\ pr' = [pr EXCEPT ![p] = [started EXCEPT !.pc = "done", !.after = 0]]
            /\ UNCHANGED <<coreVars, hs>>
       ELSE IF model # None
       THEN /\ pr' = [pr EXCEPT ![p] = [started EXCEPT !.pc = "read", !.m = model,
                                                      !.atStart = model.obj]]
            /\ UNCHANGED <<coreVars, hs>>
       ELSE \* cold start, lines 92-113
            /\ model_path' = ActivePath
            /\ \/ /\ Exists(ActivePath)
                  /\ FreshObj <= MaxObjs
                  /\ model' = [obj |-> FreshObj, art |-> files[ActivePath]]
                  /\ pr' = [pr EXCEPT ![p] = [started EXCEPT !.pc = "read", !.m = model',
                                                           !.atStart = model'.obj]]
               \/ /\ pr' = [pr EXCEPT ![p] = [started EXCEPT !.pc = "done", !.error = TRUE]]
                  /\ UNCHANGED model
            /\ hs' = Disturb(p)
            /\ streak' = NoStreak
            /\ UNCHANGED <<is_reloading, installed>>
    /\ UNCHANGED <<lifeVars, files>>

\* load_model(model_path) called on its own, lines 87-113, all of it under
\* the lock: the cached model, or the path recorded (line 96), the file
\* checked and loaded; ModelLoadError when the file is missing or joblib.load
\* throws
LoadModel(p, path, loads) ==
    /\ pr[p].pc = "idle"
    /\ LockFree(p)
    /\ LET started == [PrIdle EXCEPT !.kind = "load",
                          !.after = IF installed.returned THEN installed.obj ELSE 0]
           target == IF path = NoPath THEN ActivePath ELSE path
       IN
       IF model # None
       THEN /\ pr' = [pr EXCEPT ![p] = [started EXCEPT !.pc = "done", !.m = model,
                                                      !.atStart = model.obj]]
            /\ UNCHANGED <<coreVars, hs>>
       ELSE /\ model_path' = target
            /\ \E ok \in {b \in loads : b => (Exists(target) /\ FreshObj <= MaxObjs)} :
                 IF ok
                 THEN /\ model' = [obj |-> FreshObj, art |-> files[target]]
                      /\ pr' = [pr EXCEPT ![p] = [started EXCEPT !.pc = "done", !.m = model',
                                                                !.atStart = model'.obj]]
                 ELSE /\ pr' = [pr EXCEPT ![p] = [started EXCEPT !.pc = "done",
                                                                !.error = TRUE]]
                      /\ UNCHANGED model
            /\ hs' = Disturb(p)
            /\ streak' = NoStreak
            /\ UNCHANGED <<is_reloading, installed>>
    /\ UNCHANGED <<lifeVars, files>>

\* lines 223 and 265: model.predict on the local reference
PredictCall(p) ==
    /\ pr[p].pc = "read"
    /\ pr' = [pr EXCEPT ![p].pc = "predicted", ![p].predBy = pr[p].m.obj]
    /\ UNCHANGED <<lifeVars, files, coreVars, hs>>

\* predict_proba on the shared reference instead of the local copy
PredictProbaShared(p) ==
    /\ pr[p].pc = "predicted"
    /\ pr' = [pr EXCEPT ![p].pc = "done", ![p].probaBy = model.obj, ![p].out = pr[p].n]
    /\ UNCHANGED <<lifeVars, files, coreVars, hs>>

\* lines 226-236 and 266-280: model.predict_proba on the local reference, then
\* one result per input text
PredictProba(p) ==
    /\ pr[p].pc = "predicted"
    /\ pr' = [pr EXCEPT ![p].pc = "done", ![p].probaBy = pr[p].m.obj, ![p].out = pr[p].n]
    /\ UNCHANGED <<lifeVars, files, coreVars, hs>>

PredictReturn(p) ==
    /\ pr[p].pc = "done"
    /\ pr' = [pr EXCEPT ![p] = PrIdle]
    /\ UNCHANGED <<lifeVars, files, coreVars, hs>>

\* artifact storage is external: files appear, are replaced and disappear
StoreArtifact(path, art) ==
    /\ files[path] # art
    /\ files' = [files EXCEPT ![path] = art]
    /\ UNCHANGED <<lifeVars, coreVars, hs, pr>>


(***************************************************************************)
(* The database.  Sessions run at READ COMMITTED: a statement sees what is *)
(* committed when it starts, an UPDATE locks the rows it changes until its *)
(* transaction ends, and an UPDATE that meets a row locked by another      *)
(* transaction waits, then looks at that row again.                        *)
(***************************************************************************)
LockedByOther(s, v) == \E t \in Sessions \ {s} : v \in tx[t].deact

ApplyDeact(vs, ids, at) ==
    [v \in DOMAIN vs |->
        IF v \in ids THEN [vs[v] EXCEPT !.is_active = FALSE, !.deactivated_at = at]
        ELSE vs[v]]

\* UPDATE model_versions SET is_active = false, deactivated_at = now
\* WHERE is_active: either done at once, or waiting on a locked row
DeactivateStmt(s) ==
    LET targets == ActiveSet(versions) IN
    IF \E v \in targets : LockedByOther(s, v)
    THEN [tx EXCEPT ![s] = [deact |-> {}, at |-> now, wait |-> targets]]
    ELSE [tx EXCEPT ![s] = [deact |-> targets, at |-> now, wait |-> {}]]

\* the waiting UPDATE goes on once the rows are unlocked: it changes those of
\* its rows that still match
DeactivateResume(s) ==
    [tx EXCEPT ![s] = [deact |-> {v \in tx[s].wait : versions[v].is_active},
                       at |-> tx[s].at, wait |-> {}]]

(***************************************************************************)
(* The clock                                                               *)
(***************************************************************************)
Tick ==
    /\ now < MaxNow
    /\ now' = now + 1
    /\ UNCHANGED <<dbVars, files, nextTrain, coreVars, hs, pr, run, rb, tx>>

(***************************************************************************)
(* ValidationService.submit_validation                                     *)
(***************************************************************************)
\* submit_validation taking a label for a correction only when it differs
\* from the prediction
SubmitEffectByDifference(item, user, is_correct, label) ==
    /\ IF item \notin Items
       THEN \* lines 108-111
            /\ fbResult' = "ScanResultNotFoundError"
            /\ UNCHANGED <<feedback, nextFb, run>>
       ELSE IF ~is_correct /\ label = <<>>
       THEN \* lines 120-123
            /\ fbResult' = "ValidationError"
            /\ UNCHANGED <<feedback, nextFb, run>>
       ELSE LET final_label == IF is_correct THEN ItemPred(item) ELSE label[1]
                is_correction == final_label # ItemPred(item)
                existing == {f \in feedback : f.scan_result_id = item /\ f.user_id = user}
            IN
            /\ fbResult' = "ok"
            /\ IF existing # {}
               THEN \* lines 138-144
                    LET e == CHOOSE f \in existing : TRUE IN
                    /\ feedback' = (feedback \ {e}) \cup
                          {[e EXCEPT !.corrected_label = final_label,
                                     !.is_correction = is_correction,
                                     !.validated_at = now,
                                     !.used_in_training = FALSE]}
                    /\ UNCHANGED nextFb
                    /\ run' = Forget(run, e.id)
               ELSE \* lines 146-157
                    /\ feedback' = feedback \cup
                          {[id |-> nextFb, scan_result_id |-> item, user_id |-> user,
                            comment_text |-> ItemText(item),
                            original_prediction |-> ItemPred(item),
                            corrected_label |-> final_label,
                            is_correction |-> is_correction,
                            validated_at |-> now,
                            used_in_training |-> FALSE,
                            model_version_id |-> NULL]}
                    /\ nextFb' = nextFb + 1
                    /\ UNCHANGED run

\* lines 102-162: what the call does to the feedback table
SubmitEffect(item, user, is_correct, label) ==
    /\ IF item \notin Items
       THEN \* lines 108-111
            /\ fbResult' = "ScanResultNotFoundError"
            /\ UNCHANGED <<feedback, nextFb, run>>
       ELSE IF ~is_correct /\ label = <<>>
       THEN \* lines 120-123
            /\ fbResult' = "ValidationError"
            /\ UNCHANGED <<feedback, nextFb, run>>
       ELSE LET final_label == IF is_correct THEN ItemPred(item) ELSE label[1]
                is_correction == ~is_correct
                existing == {f \in feedback : f.scan_result_id = item /\ f.user_id = user}
            IN
            /\ fbResult' = "ok"
            /\ IF existing # {}
               THEN \* lines 138-144
                    LET e == CHOOSE f \in existing : TRUE IN
                    /\ feedback' = (feedback \ {e}) \cup
                          {[e EXCEPT !.corrected_label = final_label,
                                     !.is_correction = is_correction,
                                     !.validated_at = now,
                                     !.used_in_training = FALSE]}
                    /\ UNCHANGED nextFb
                    /\ run' = Forget(run, e.id)
               ELSE \* lines 146-157
                    /\ feedback' = feedback \cup
                          {[id |-> nextFb, scan_result_id |-> item, user_id |-> user,
                            comment_text |-> ItemText(item),
                            original_prediction |-> ItemPred(item),
                            corrected_label |-> final_label,
                            is_correction |-> is_correction,
                            validated_at |-> now,
                            used_in_training |-> FALSE,
                            model_version_id |-> NULL]}
                    /\ nextFb' = nextFb + 1
                    /\ UNCHANGED run

\* check_retraining_threshold, lines 357-365
CheckRetrainingThreshold ==
    Cardinality({f \in feedback : ~f.used_in_training}) >= retraining_threshold

\* a request: the call, from its arguments to its answer
NoCall == [op |-> "none", seq |-> 0, item |-> 0, user |-> 0, is_correct |-> FALSE,
           label |-> <<>>, id |-> NULL]
Called(op, item, user, is_correct, label, id) ==
    [op |-> op, seq |-> 1 - vcalls.last.seq, item |-> item, user |-> user,
     is_correct |-> is_correct, label |-> label, id |-> id]

\* requests to submit_validation that run in sessions of their own, each
\* executed once
Submitters == {"sb1", "sb2"}
SbIdle == [pc |-> "idle", item |-> 0, user |-> 0, final_label |-> FALSE,
           is_correction |-> FALSE, loaded |-> {}, result |-> "none"]

\* a request to batch_validate, executed once
BATCH_ACTIONS == {"confirm_all", "mark_gambling", "mark_clean"}
BtIdle == [pc |-> "idle", result_ids |-> <<>>, user |-> 0, action |-> "none", i |-> 1,
           successful |-> 0, failed |-> 0, validations |-> <<>>, errors |-> <<>>,
           total_submitted |-> -1]

VsIdle == [last |-> NoCall, expired |-> {}, elapsed |-> -1,
           open |-> [s \in Submitters |-> SbIdle], batch |-> BtIdle]

Submit(item, user, is_correct, label) ==
    /\ UNCHANGED <<now, training, versions, verArt, files, nextTrain, coreVars, hs, pr, rb, tx>>
    /\ SubmitEffect(item, user, is_correct, label)
    /\ vcalls' = [vcalls EXCEPT !.last = Called("submit", item, user, is_correct, label, NULL)]

(***************************************************************************)
(* retrain_model (workers/tasks.py) and RetrainingService.deploy_model.    *)
(* Each task in Runs is executed once.  The parameter ok of a step is the  *)
(* outcome of the operation the step performs on its environment (corpus   *)
(* file, training, artifact storage, database): TRUE when it succeeds.     *)
(***************************************************************************)
\* the task is over; an exception that leaves run_retraining is reported
\* with update_state(state='FAILURE', meta={'progress': 0, ...}), tasks.py
\* lines 470-482
Done(r, outcome, raised) ==
    [run EXCEPT ![r].pc = "done", ![r].outcome = outcome, ![r].raised = raised,
                ![r].progress = IF raised THEN 0 ELSE @, ![r].data = {}]

\* tasks.py lines 368-391: the task starts (progress 0, 10, 20), counts the
\* unused feedback and
\* loads the training data (get_training_data; small: it has fewer rows
\* than the floor; data: the feedback rows it read, kept until the deploy
\* has marked the feedback);
\* RetrainingError when the corpus is not there, which the task re-raises
\* (lines 453-455)
RunStart(r, ok) ==
    /\ run[r].pc = "idle"
    /\ run' = IF ok
              THEN [run EXCEPT ![r].pc = "training", ![r].progress = 20,
                               ![r].triggered_by = Trigger,
                               ![r].data = {f.id : f \in feedback},
                               ![r].small = Cardinality(
                                  {BaseCorpus[k].comment : k \in DOMAIN BaseCorpus}
                                  \cup {f.comment_text : f \in feedback})
                                  < min_training_samples]
              ELSE [Done(r, "failed", TRUE) EXCEPT ![r].triggered_by = Trigger]
    /\ UNCHANGED <<now, dbVars, files, nextTrain, coreVars, hs, pr, rb, tx>>

\* tasks.py lines 393-406, train_and_evaluate (progress 40): a fitted
\* pipeline (progress 70, 80), or an exception the task re-raises (lines
\* 453-459)
RunTrain(r, ok) ==
    /\ run[r].pc = "training"
    /\ IF ok
       THEN /\ nextTrain <= BaseArt + MaxTrain
            /\ run' = [run EXCEPT ![r].pc = "deploy", ![r].art = nextTrain,
                                  ![r].progress = 80]
            /\ nextTrain' = nextTrain + 1
       ELSE /\ run' = Done(r, "failed", TRUE)
            /\ UNCHANGED nextTrain
    /\ UNCHANGED <<now, dbVars, files, coreVars, hs, pr, rb, tx>>

\* deploy_model with a write failure that the task lets through to the retry
DeployDumpRaises(r, ok) ==
    /\ run[r].pc = "deploy"
    /\ IF ok
       THEN /\ files' = [files EXCEPT ![VerPath(now)] = run[r].art]
            /\ run' = [run EXCEPT ![r].pc = "deactivate", ![r].version = now,
                          ![r].activeAtStart = ActiveSet(versions),
                          ![r].unusedAtStart =
                              {f.id : f \in {g \in feedback : ~g.used_in_training}},
                          ![r].usedAtStart =
                              {<<f.id, f.model_version_id>> :
                                  f \in {g \in feedback : g.used_in_training}}]
       ELSE /\ run' = [Done(r, "failed", TRUE) EXCEPT ![r].reason = "deployment_error"]
            /\ UNCHANGED files
    /\ UNCHANGED <<now, dbVars, nextTrain, coreVars, hs, pr, rb, tx>>

\* deploy_model lines 392-407: the version string is the timestamp, the
\* artifact is written under it; ModelDeploymentError when the write fails,
\* which the task turns into a 'failed' result (tasks.py lines 443-451)
DeployDump(r, ok) ==
    /\ run[r].pc = "deploy"
    /\ IF ok
       THEN /\ files' = [files EXCEPT ![VerPath(now)] = run[r].art]
            /\ run' = [run EXCEPT ![r].pc = "deactivate", ![r].version = now,
                          ![r].activeAtStart = ActiveSet(versions),
                          ![r].unusedAtStart =
                              {f.id : f \in {g \in feedback : ~g.used_in_training}},
                          ![r].usedAtStart =
                              {<<f.id, f.model_version_id>> :
                                  f \in {g \in feedback : g.used_in_training}}]
       ELSE /\ run' = [Done(r, "failed", FALSE) EXCEPT ![r].reason = "deployment_error"]
            /\ UNCHANGED files
    /\ UNCHANGED <<now, dbVars, nextTrain, coreVars, hs, pr, rb, tx>>

\* deploy_model lines 409-417
DeployDeactivate(r) ==
    /\ run[r].pc = "deactivate"
    /\ tx' = DeactivateStmt(r)
    /\ run' = [run EXCEPT ![r].pc = IF tx'[r].wait # {} THEN "deactivate_wait" ELSE "commit"]
    /\ UNCHANGED <<now, dbVars, files, nextTrain, coreVars, hs, pr, rb>>

DeployDeactivateResume(r) ==
    /\ run[r].pc = "deactivate_wait"
    /\ \A v \in tx[r].wait : ~LockedByOther(r, v)
    /\ tx' = DeactivateResume(r)
    /\ run' = [run EXCEPT ![r].pc = "commit"]
    /\ UNCHANGED <<now, dbVars, files, nextTrain, coreVars, hs, pr, rb>>

\* deploy_model lines 419-435: the new row, active, and the first commit.
\* The version string is unique (models/model_version.py line 36): a second
\* row with it is refused.  A commit that fails raises, the session is closed
\* and its transaction rolled back (tasks.py lines 372, 457-459)
DeployCommit(r, ok) ==
    /\ run[r].pc = "commit"
    /\ UNCHANGED <<now, training, feedback, nextFb, fbResult, vcalls, files, nextTrain, coreVars, hs, pr,
                   rb>>
    /\ tx' = [tx EXCEPT ![r] = NoTx]
    /\ IF ok /\ \A v \in DOMAIN versions : versions[v].version # run[r].version
       THEN /\ versions' = Append(ApplyDeact(versions, tx[r].deact, tx[r].at),
                                  [version |-> run[r].version, is_active |-> TRUE,
                                   activated_at |-> now, deactivated_at |-> NULL])
            /\ verArt' = Append(verArt, run[r].art)
            /\ run' = [Touch(r) EXCEPT ![r].pc = "mark", ![r].ver = Len(versions) + 1]
       ELSE /\ UNCHANGED <<versions, verArt>>
            /\ run' = Done(r, "failed", TRUE)

\* deploy_model lines 437-446: the unused feedback is marked, second commit
DeployMark(r, ok) ==
    /\ run[r].pc = "mark"
    /\ UNCHANGED <<now, training, versions, verArt, nextFb, fbResult, vcalls, files, nextTrain, coreVars,
                   hs, pr, rb, tx>>
    /\ IF ok
       THEN /\ feedback' = {IF f.used_in_training THEN f
                            ELSE [f EXCEPT !.used_in_training = TRUE,
                                           !.model_version_id = run[r].ver] : f \in feedback}
            /\ run' = [Touch(r) EXCEPT ![r].pc = "copy", ![r].data = {}]
       ELSE /\ UNCHANGED feedback
            /\ run' = Done(r, "failed", TRUE)

\* deploy_model lines 448-455: the artifact is copied to the active model
\* path, a failure of the copy is swallowed; deploy_model returns and the
\* task reports progress 95 (tasks.py line 414)
DeployCopy(r, ok) ==
    /\ run[r].pc = "copy"
    /\ files' = IF ok THEN [files EXCEPT ![ActivePath] = files[VerPath(run[r].version)]]
                ELSE files
    /\ run' = [run EXCEPT ![r].pc = "reload", ![r].progress = 95]
    /\ UNCHANGED <<now, dbVars, nextTrain, coreVars, hs, pr, rb, tx>>

\* tasks.py lines 413-421: PredictionService.reload_model()
RunReload(r) ==
    /\ run[r].pc = "reload"
    /\ HsEnter(r, NoPath)
    /\ run' = [run EXCEPT ![r].pc = "reloading"]
    /\ UNCHANGED <<now, dbVars, files, nextTrain, pr, rb, tx>>

\* tasks.py lines 423-432: whatever reload_model returned, the task reports
\* success
RunSuccess(r) ==
    /\ run[r].pc = "reloading"
    /\ hs[r].pc = "ret"
    /\ hs' = [hs EXCEPT ![r] = HsIdle]
    /\ run' = Done(r, "success", FALSE)
    /\ UNCHANGED <<now, dbVars, files, nextTrain, coreVars, pr, rb, tx>>

(***************************************************************************)
(* POST /rollback/{version_id} (routers/model.py) and                      *)
(* RetrainingService.rollback_model.  Each request in Rollbacks is made    *)
(* once.                                                                   *)
(***************************************************************************)
\* rollback_model deactivating the active version before it looks for the
\* target's artifact
RbBeginDeactivatesFirst(b, vid) ==
    /\ rb[b].pc = "idle"
    /\ vid \in DOMAIN versions
    /\ ~Exists(VerPath(versions[vid].version))
    /\ versions' = ApplyDeact(versions, ActiveSet(versions), now)
    /\ rb' = [rb EXCEPT ![b] = [RbIdle EXCEPT !.pc = "done", !.outcome = "error",
                                               !.target = vid]]
    /\ UNCHANGED <<now, training, verArt, feedback, nextFb, fbResult, vcalls, files, nextTrain, coreVars,
                   hs, pr, run, tx>>

\* rollback_model lines 472-496: the target row and its artifact's file
\* (RetrainingError without them, a 404 for the client), then the UPDATE
\* that deactivates
RbBegin(b, vid) ==
    /\ rb[b].pc = "idle"
    /\ IF vid \notin DOMAIN versions
       THEN /\ rb' = [rb EXCEPT ![b] = [RbIdle EXCEPT !.pc = "done", !.outcome = "error"]]
            /\ UNCHANGED tx
       ELSE IF ~Exists(VerPath(versions[vid].version))
       THEN /\ rb' = [rb EXCEPT ![b] = [RbIdle EXCEPT !.pc = "done", !.outcome = "error",
                                                      !.target = vid]]
            /\ UNCHANGED tx
       ELSE /\ tx' = DeactivateStmt(b)
            /\ rb' = [rb EXCEPT ![b] = [RbIdle EXCEPT !.target = vid,
                          !.pc = IF tx'[b].wait # {} THEN "deactivate_wait" ELSE "commit"]]
    /\ UNCHANGED <<now, dbVars, files, nextTrain, coreVars, hs, pr, run>>

RbDeactivateResume(b) ==
    /\ rb[b].pc = "deactivate_wait"
    /\ \A v \in tx[b].wait : ~LockedByOther(b, v)
    /\ tx' = DeactivateResume(b)
    /\ rb' = [rb EXCEPT ![b].pc = "commit"]
    /\ UNCHANGED <<now, dbVars, files, nextTrain, coreVars, hs, pr, run>>

\* rollback_model lines 498-508: the target row is made active and the
\* transaction committed
RbCommit(b) ==
    /\ rb[b].pc = "commit"
    /\ ~LockedByOther(b, rb[b].target)
    /\ UNCHANGED <<now, training, verArt, feedback, nextFb, fbResult, vcalls, files, nextTrain, coreVars,
                   hs, pr, run>>
    /\ versions' = [ApplyDeact(versions, tx[b].deact, tx[b].at) EXCEPT
                       ![rb[b].target] = [@ EXCEPT !.is_active = TRUE,
                                                   !.activated_at = now,
                                                   !.deactivated_at = NULL]]
    /\ tx' = [tx EXCEPT ![b] = NoTx]
    /\ rb' = [rb EXCEPT ![b].pc = "reload"]

\* routers/model.py lines 351-353: reload_model(model_version.file_path)
RbReload(b) ==
    /\ rb[b].pc = "reload"
    /\ HsEnter(b, VerPath(versions[rb[b].target].version))
    /\ rb' = [rb EXCEPT ![b].pc = "reloading"]
    /\ UNCHANGED <<now, dbVars, files, nextTrain, pr, run, tx>>

\* routers/model.py lines 355-368: success is reported whether or not the
\* reload succeeded
RbRespond(b) ==
    /\ rb[b].pc = "reloading"
    /\ hs[b].pc = "ret"
    /\ hs' = [hs EXCEPT ![b] = HsIdle]
    /\ rb' = [rb EXCEPT ![b].pc = "done", ![b].outcome = "success"]
    /\ UNCHANGED <<now, dbVars, files, nextTrain, coreVars, pr, run, tx>>

InitShared ==
    /\ now = 1
    /\ versions = <<>>
    /\ verArt = <<>>
    /\ feedback = {}
    /\ nextFb = 1
    /\ fbResult = "none"
    /\ vcalls = VsIdle
    /\ training = NoData
    /\ nextTrain = BaseArt + 1
    /\ is_reloading = FALSE
    /\ installed = [obj |-> 0, returned |-> FALSE]
    /\ streak = NoStreak
    /\ hs = [c \in Callers |-> HsIdle]
    /\ pr = [p \in Predictors |-> PrIdle]
    /\ run = [r \in Runs |-> RunIdle]
    /\ rb = [b \in Rollbacks |-> RbIdle]
    /\ tx = [s \in Sessions |-> NoTx]

(***************************************************************************)
(* PredictionService on its own: any callers, any artifact storage         *)
(***************************************************************************)
InitCore ==
    /\ InitShared
    /\ model = None
    /\ model_path = NoPath
    /\ files = [path \in Paths |-> IF path = ActivePath THEN BaseArt ELSE NoFile]

NextCore ==
    \/ \E c \in Swappers, p \in {NoPath, MissingPath, VerPath(1)} : SwapperCall(c, p)
    \/ \E c \in Swappers : HsStep(c, BOOLEAN)
    \/ \E c \in Swappers : SwapperReturn(c)
    \/ \E p \in Predictors, kind \in {"single", "batch"}, n \in 0..MaxBatch : PredictRead(p, kind, n)
    \/ \E p \in Predictors : PredictCall(p)
    \/ \E p \in Predictors : PredictProba(p)
    \/ \E p \in Predictors : PredictReturn(p)
    \/ \E art \in {NoFile, BaseArt + 1} : StoreArtifact(VerPath(1), art)

SpecCore == InitCore /\ [][NextCore]_vars

\* load_model called with a path, reload_model without one
NextLoad ==
    \/ \E p \in Predictors, path \in {NoPath, MissingPath, VerPath(1)} :
          LoadModel(p, path, BOOLEAN)
    \/ \E p \in Predictors : PredictReturn(p)
    \/ \E c \in Swappers : SwapperCall(c, NoPath)
    \/ \E c \in Swappers : HsStep(c, BOOLEAN)
    \/ \E c \in Swappers : SwapperReturn(c)
    \/ \E art \in {NoFile, BaseArt + 1} : StoreArtifact(VerPath(1), art)

SpecLoad == InitCore /\ [][NextLoad]_vars

(***************************************************************************)
(* Registry and served model: concurrent retraining tasks and a rollback,  *)
(* the environment never failing, no feedback coming in.  The server has   *)
(* either not loaded a model yet or serves the one shipped with it.        *)
(***************************************************************************)
Init ==
    /\ InitShared
    /\ files = [path \in Paths |-> IF path = ActivePath THEN BaseArt ELSE NoFile]
    /\ \/ model = None /\ model_path = NoPath
       \/ model = [obj |-> 1, art |-> BaseArt] /\ model_path = ActivePath

Next ==
    \/ Tick
    \/ \E r \in Runs :
          \/ RunStart(r, TRUE) \/ RunTrain(r, TRUE)
          \/ DeployDump(r, TRUE) \/ DeployDeactivate(r) \/ DeployDeactivateResume(r)
          \/ DeployCommit(r, TRUE) \/ DeployMark(r, TRUE) \/ DeployCopy(r, TRUE)
          \/ RunReload(r) \/ RunSuccess(r)
    \/ \E b \in Rollbacks :
          \/ (\E vid \in 1..MaxTrain : RbBegin(b, vid))
          \/ RbDeactivateResume(b) \/ RbCommit(b)
          \/ RbReload(b) \/ RbRespond(b)
    \/ \E c \in Runs \cup Rollbacks : HsStep(c, {TRUE})

Spec == Init /\ [][Next]_vars

(***************************************************************************)
(* Retraining tasks and feedback in an environment whose operations can    *)
(* fail                                                                    *)
(***************************************************************************)
NextFaults ==
    \/ Tick
    \/ \E item \in Items, user \in Users : Submit(item, user, TRUE, <<>>)
    \/ \E r \in Runs, ok \in BOOLEAN :
          \/ RunStart(r, ok) \/ RunTrain(r, ok)
          \/ DeployDump(r, ok) \/ DeployDeactivate(r)
          \/ DeployCommit(r, ok) \/ DeployMark(r, ok) \/ DeployCopy(r, ok)
          \/ RunReload(r) \/ RunSuccess(r)
    \/ \E c \in Runs : HsStep(c, BOOLEAN)

SpecFaults == Init /\ [][NextFaults]_vars

(***************************************************************************)
(* One retraining task, one rollback request, and an artifact storage      *)
(* that can lose the files of model versions                               *)
(***************************************************************************)
NextRegistry ==
    \/ Tick
    \/ RunStart("run1", TRUE) \/ RunTrain("run1", TRUE)
    \/ DeployDump("run1", TRUE) \/ DeployDeactivate("run1")
    \/ DeployCommit("run1", TRUE) \/ DeployMark("run1", TRUE) \/ DeployCopy("run1", TRUE)
    \/ RunReload("run1") \/ RunSuccess("run1")
    \/ \E b \in Rollbacks :
          \/ (\E vid \in 1..MaxTrain : RbBegin(b, vid))
          \/ RbCommit(b) \/ RbReload(b) \/ RbRespond(b)
    \/ \E c \in {"run1"} \cup Rollbacks : HsStep(c, BOOLEAN)
    \/ \E version \in 1..MaxNow : StoreArtifact(VerPath(version), NoFile)

SpecRegistry == Init /\ [][NextRegistry]_vars

(***************************************************************************)
(* The feedback store: validations submitted, the clock                    *)
(***************************************************************************)
\* the wall clock of the feedback store: now - validated_at is what
\* _can_undo (lines 367-383) compares with the window; a record whose window
\* has been seen expired is remembered
Elapse ==
    /\ now < MaxClock
    /\ now' = now + 1
    /\ vcalls' = [vcalls EXCEPT !.expired =
                 @ \cup {f.id : f \in {g \in feedback :
                                          now' - g.validated_at > UNDO_WINDOW_SECONDS}}]
    /\ UNCHANGED <<versions, verArt, feedback, nextFb, fbResult, training, files,
                   nextTrain, coreVars, hs, pr, run, rb, tx>>

\* lines 367-383
Elapsed(validated_at) == now - validated_at
CanUndo(validated_at) == Elapsed(validated_at) <= UNDO_WINDOW_SECONDS

\* undo_validation with a window that closes at exactly 5 seconds
UndoStrict(id, user) ==
    LET rows == {f \in feedback : f.id = id /\ f.user_id = user} IN
    /\ vcalls' = [vcalls EXCEPT !.last = Called("undo", 0, user, FALSE, <<>>, id),
                                !.elapsed = IF rows = {} THEN -1
                                            ELSE Elapsed((CHOOSE f \in rows : TRUE).validated_at)]
    /\ IF rows = {}
       THEN /\ fbResult' = "ValidationNotFoundError"
            /\ UNCHANGED <<feedback, run>>
       ELSE IF ~(Elapsed((CHOOSE f \in rows : TRUE).validated_at) < UNDO_WINDOW_SECONDS)
       THEN /\ fbResult' = "UndoWindowExpiredError"
            /\ UNCHANGED <<feedback, run>>
       ELSE /\ fbResult' = "ok"
            /\ feedback' = feedback \ rows
            /\ run' = Forget(run, id)
    /\ UNCHANGED <<now, training, versions, verArt, nextFb, files, nextTrain, coreVars, hs, pr, rb, tx>>

\* undo_validation, lines 257-283: the record with this id that belongs to
\* the user, the window, the delete
Undo(id, user) ==
    LET rows == {f \in feedback : f.id = id /\ f.user_id = user} IN
    /\ vcalls' = [vcalls EXCEPT !.last = Called("undo", 0, user, FALSE, <<>>, id),
                                !.elapsed = IF rows = {} THEN -1
                                            ELSE Elapsed((CHOOSE f \in rows : TRUE).validated_at)]
    /\ IF rows = {}
       THEN /\ fbResult' = "ValidationNotFoundError"
            /\ UNCHANGED <<feedback, run>>
       ELSE IF ~CanUndo((CHOOSE f \in rows : TRUE).validated_at)
       THEN /\ fbResult' = "UndoWindowExpiredError"
            /\ UNCHANGED <<feedback, run>>
       ELSE /\ fbResult' = "ok"
            /\ feedback' = feedback \ rows
            /\ run' = Forget(run, id)
    /\ UNCHANGED <<now, training, versions, verArt, nextFb, files, nextTrain, coreVars, hs, pr, rb, tx>>

\* batch_validate, lines 186-189: the counters and the lists
BtStart(result_ids, user, action) ==
    /\ vcalls.batch.pc = "idle"
    /\ vcalls' = [vcalls EXCEPT !.batch = [BtIdle EXCEPT !.pc = "loop",
                                              !.result_ids = result_ids,
                                              !.user = user, !.action = action]]
    /\ UNCHANGED <<now, training, versions, verArt, feedback, nextFb, fbResult, files, nextTrain,
                   coreVars, hs, pr, run, rb, tx>>

\* the loop body that leaves the loop at the first exception
BtItemStops ==
    LET b == vcalls.batch
        result_id == b.result_ids[b.i]
    IN
    /\ b.pc = "loop" /\ b.i <= Len(b.result_ids)
    /\ SubmitEffect(result_id, b.user, b.action = "confirm_all",
                    IF b.action = "confirm_all" THEN <<>>
                    ELSE <<b.action = "mark_gambling">>)
    /\ vcalls' = [vcalls EXCEPT !.batch =
          IF fbResult' = "ok"
          THEN [b EXCEPT !.i = @ + 1, !.successful = @ + 1,
                  !.validations = Append(@,
                      (CHOOSE f \in feedback' :
                          f.scan_result_id = result_id /\ f.user_id = b.user).id)]
          ELSE [b EXCEPT !.i = Len(b.result_ids) + 1, !.failed = @ + 1,
                         !.errors = Append(@, result_id)]]
    /\ UNCHANGED <<now, training, versions, verArt, files, nextTrain, coreVars, hs, pr, rb, tx>>

\* lines 191-226: one turn of the loop, submit_validation with the
\* arguments of the action, the entry appended to validations or to errors
BtItem ==
    LET b == vcalls.batch
        result_id == b.result_ids[b.i]
    IN
    /\ b.pc = "loop" /\ b.i <= Len(b.result_ids)
    /\ SubmitEffect(result_id, b.user, b.action = "confirm_all",
                    IF b.action = "confirm_all" THEN <<>>
                    ELSE <<b.action = "mark_gambling">>)
    /\ vcalls' = [vcalls EXCEPT !.batch =
          IF fbResult' = "ok"
          THEN [b EXCEPT !.i = @ + 1, !.successful = @ + 1,
                  !.validations = Append(@,
                      (CHOOSE f \in feedback' :
                          f.scan_result_id = result_id /\ f.user_id = b.user).id)]
          ELSE [b EXCEPT !.i = @ + 1, !.failed = @ + 1,
                         !.errors = Append(@, result_id)]]
    /\ UNCHANGED <<now, training, versions, verArt, files, nextTrain, coreVars, hs, pr, rb, tx>>

\* lines 228-234
BtReturn ==
    LET b == vcalls.batch IN
    /\ b.pc = "loop" /\ b.i > Len(b.result_ids)
    /\ vcalls' = [vcalls EXCEPT !.batch.pc = "done",
                                !.batch.total_submitted = Len(b.result_ids)]
    /\ UNCHANGED <<now, training, versions, verArt, feedback, nextFb, fbResult, files, nextTrain,
                   coreVars, hs, pr, run, rb, tx>>

\* the lists of ids a request can carry
RECURSIVE Seqs(_, _)
Seqs(S, n) == IF n = 0 THEN {<<>>}
              ELSE Seqs(S, n - 1) \cup
                   {Append(q, x) : q \in {q \in Seqs(S, n - 1) : Len(q) = n - 1}, x \in S}

\* submit_validation up to its commit, lines 102-136: the scan result, the
\* label, the SELECT of the existing record into the session
SbRead(s, item, user, is_correct, label) ==
    /\ vcalls.open[s].pc = "idle"
    /\ vcalls' = [vcalls EXCEPT !.open[s] =
          IF item \notin Items
          THEN [SbIdle EXCEPT !.pc = "done", !.item = item, !.user = user,
                              !.result = "ScanResultNotFoundError"]
          ELSE IF ~is_correct /\ label = <<>>
          THEN [SbIdle EXCEPT !.pc = "done", !.item = item, !.user = user,
                              !.result = "ValidationError"]
          ELSE [SbIdle EXCEPT !.pc = "read", !.item = item, !.user = user,
                  !.final_label = IF is_correct THEN ItemPred(item) ELSE label[1],
                  !.is_correction = ~is_correct,
                  !.loaded = {f \in feedback : f.scan_result_id = item /\ f.user_id = user}]]
    /\ UNCHANGED <<now, training, versions, verArt, feedback, nextFb, fbResult, files, nextTrain,
                   coreVars, hs, pr, run, rb, tx>>

\* the flush of the session: an UPDATE writes the attributes whose value
\* differs from the loaded one, to the row with the loaded id
Flushed(cur, e, c) ==
    [cur EXCEPT !.corrected_label = IF c.final_label # e.corrected_label
                                    THEN c.final_label ELSE @,
                !.is_correction = IF c.is_correction # e.is_correction
                                  THEN c.is_correction ELSE @,
                !.validated_at = now,
                !.used_in_training = IF e.used_in_training THEN FALSE ELSE @]

NewRow(c) ==
    [id |-> nextFb, scan_result_id |-> c.item, user_id |-> c.user,
     comment_text |-> ItemText(c.item),
     original_prediction |-> ItemPred(c.item),
     corrected_label |-> c.final_label,
     is_correction |-> c.is_correction,
     validated_at |-> now,
     used_in_training |-> FALSE,
     model_version_id |-> NULL]

SbDone(s, result) ==
    vcalls' = [vcalls EXCEPT !.open[s].pc = "done", !.open[s].result = result]

\* lines 138-159 with models/validation.py line 85: the INSERT or the
\* UPDATE and the commit; the unique index refuses a second row for the
\* pair, an UPDATE of a row that is gone matches nothing
SbCommit(s) ==
    LET c == vcalls.open[s] IN
    /\ c.pc = "read"
    /\ IF c.loaded = {}
       THEN IF \E f \in feedback : f.scan_result_id = c.item /\ f.user_id = c.user
            THEN /\ SbDone(s, "IntegrityError")
                 /\ UNCHANGED <<feedback, nextFb, run>>
            ELSE /\ feedback' = feedback \cup {NewRow(c)}
                 /\ nextFb' = nextFb + 1
                 /\ SbDone(s, "ok")
                 /\ UNCHANGED run
       ELSE LET e == CHOOSE f \in c.loaded : TRUE
                rows == {f \in feedback : f.id = e.id}
            IN
            IF rows = {}
            THEN /\ SbDone(s, "StaleDataError")
                 /\ UNCHANGED <<feedback, nextFb, run>>
            ELSE /\ feedback' = (feedback \ rows) \cup
                                   {Flushed(cur, e, c) : cur \in rows}
                 /\ run' = Forget(run, e.id)
                 /\ SbDone(s, "ok")
                 /\ UNCHANGED nextFb
    /\ UNCHANGED <<now, training, versions, verArt, fbResult, files, nextTrain, coreVars, hs, pr,
                   rb, tx>>

\* a user outside Users
Strangers == {MaxUsers + 1}

NextFeedback ==
    \/ Elapse
    \/ \E item \in Items \cup {MissingItem}, user \in Users, is_correct \in BOOLEAN,
          label \in {<<>>, <<TRUE>>, <<FALSE>>} :
          /\ nextFb <= MaxRows
          /\ Submit(item, user, is_correct, label)
    \/ \E id \in 1..MaxRows, user \in Users \cup Strangers : Undo(id, user)

SpecFeedback == Init /\ [][NextFeedback]_vars

(***************************************************************************)
(* RetrainingService.get_training_data                                     *)
(***************************************************************************)
\* the rows of original_df: any comments, any labels, repeated texts too
RECURSIVE Frames(_)
Frames(n) ==
    IF n = 0 THEN {<<>>}
    ELSE Frames(n - 1) \cup
         {Append(q, [comment |-> t, label |-> l]) :
            q \in {q \in Frames(n - 1) : Len(q) = n - 1}, t \in Texts, l \in {0, 1}}

Corpora == Frames(MaxCorpus)

\* the orders in which SELECT without ORDER BY can return a set of rows
Orders(rows) ==
    {q \in [1..Cardinality(rows) -> rows] : \A f \in rows : \E k \in DOMAIN q : q[k] = f}

\* lines 184-189: one row per feedback record, True -> 1 and False -> 0
ValidationData(validations) ==
    [k \in DOMAIN validations |->
        [comment |-> validations[k].comment_text,
         label |-> IF validations[k].corrected_label THEN 1 ELSE 0]]

\* drop_duplicates(subset=['comment'], keep='first')
DropDuplicatesKeepFirst(df) ==
    LET Keep(row) == df[row].comment \notin {df[k].comment : k \in 1..(row - 1)}
        RECURSIVE Rows(_)
        Rows(n) == IF n = 0 THEN <<>>
                   ELSE IF Keep(n) THEN Append(Rows(n - 1), df[n]) ELSE Rows(n - 1)
    IN Rows(Len(df))

\* line 200: drop_duplicates(subset=['comment'], keep='last')
DropDuplicates(df) ==
    LET Keep(row) == df[row].comment \notin {df[k].comment : k \in (row + 1)..Len(df)}
        RECURSIVE Rows(_)
        Rows(n) == IF n = 0 THEN <<>>
                   ELSE IF Keep(n) THEN Append(Rows(n - 1), df[n]) ELSE Rows(n - 1)
    IN Rows(Len(df))

\* lines 177-202: all the feedback, the concatenation after original_df,
\* the duplicates dropped
GetTrainingData(original_df, validations) ==
    /\ validations \in Orders(feedback)
    /\ training' = [calls |-> 1 - training.calls,
                    corpus |-> original_df,
                    validations |-> validations,
                    data |-> DropDuplicates(original_df \o ValidationData(validations))]
    /\ UNCHANGED <<now, versions, verArt, feedback, nextFb, fbResult, vcalls, files,
                   nextTrain, coreVars, hs, pr, run, rb, tx>>

\* feedback of two users and one retraining run, up to a call of
\* get_training_data
NextAssemble ==
    /\ training.calls = 0
    /\ \/ \E original_df \in Corpora :
             \E validations \in Orders(feedback) : GetTrainingData(original_df, validations)
       \/ \E item \in Items, user \in Users \cup Strangers, label \in BOOLEAN :
             /\ nextFb <= MaxRows
             /\ Submit(item, user, FALSE, <<label>>)
       \/ RunStart("run1", TRUE) \/ RunTrain("run1", TRUE)
       \/ DeployDump("run1", TRUE) \/ DeployDeactivate("run1")
       \/ DeployCommit("run1", TRUE) \/ DeployMark("run1", TRUE) \/ DeployCopy("run1", TRUE)
       \/ RunReload("run1") \/ RunSuccess("run1")
       \/ HsStep("run1", {TRUE})

SpecAssemble == Init /\ [][NextAssemble]_vars

\* a batch among single submits and undos
NextBatch ==
    \/ \E result_ids \in Seqs(Items \cup {MissingItem}, MaxIds), user \in Users,
          action \in BATCH_ACTIONS : BtStart(result_ids, user, action)
    \/ (nextFb <= MaxRows /\ BtItem)
    \/ BtReturn
    \/ \E item \in Items, user \in Users, is_correct \in BOOLEAN,
          label \in {<<>>, <<TRUE>>, <<FALSE>>} :
          /\ nextFb <= MaxRows
          /\ Submit(item, user, is_correct, label)
    \/ \E id \in 1..MaxRows, user \in Users : Undo(id, user)

SpecBatch == Init /\ [][NextBatch]_vars

\* submits in concurrent requests, undo, one retraining run
NextSubmitRace ==
    \/ \E s \in Submitters :
          \/ \E item \in Items \cup {MissingItem}, user \in Users, is_correct \in BOOLEAN,
                label \in {<<>>, <<TRUE>>, <<FALSE>>} :
                SbRead(s, item, user, is_correct, label)
          \/ SbCommit(s)
    \/ \E id \in 1..MaxRows, user \in Users : Undo(id, user)
    \/ RunStart("run1", TRUE) \/ RunTrain("run1", TRUE)
    \/ DeployDump("run1", TRUE) \/ DeployDeactivate("run1")
    \/ DeployCommit("run1", TRUE) \/ DeployMark("run1", TRUE) \/ DeployCopy("run1", TRUE)
    \/ RunReload("run1") \/ RunSuccess("run1")
    \/ HsStep("run1", {TRUE})

SpecSubmitRace == Init /\ [][NextSubmitRace]_vars

(***************************************************************************)
(* Properties of the registry, the feedback flags and the served model     *)
(***************************************************************************)
\* C1: in every reachable state, whatever the interleaving of deploys and
\* rollbacks on their own database sessions, at most one model version row
\* has is_active = true.
C1_AtMostOneActive == Cardinality(ActiveSet(versions)) <= 1

\* C2: the registry flip and the feedback flip of a deploy are one
\* all-or-nothing unit.  Once the task that called deploy is over, whether it
\* succeeded, failed or crashed between two steps, the version it created is
\* not active with feedback that was unused when the deploy started still
\* unmarked; and no feedback is marked against a version never made active.
C2_DeployAllOrNothing ==
    /\ \A r \in Runs :
         (run[r].pc = "done" /\ run[r].ver # NULL /\ versions[run[r].ver].is_active)
         => \A f \in feedback : f.id \in run[r].unusedAtStart => f.used_in_training
    /\ \A f \in feedback :
         f.used_in_training
         => /\ f.model_version_id \in DOMAIN versions
            /\ versions[f.model_version_id].activated_at # NULL

\* no task, request or reload_model call is in progress
Quiescent ==
    /\ \A r \in Runs : run[r].pc \in {"idle", "done"}
    /\ \A b \in Rollbacks : rb[b].pc \in {"idle", "done"}
    /\ \A c \in Callers : hs[c].pc = "idle"
    /\ ~is_reloading

\* C3: after any sequence of completed deploys and rollbacks, each followed
\* by the reload its caller issues, with nothing in progress, no task having
\* failed and a task or a rollback having reported success, the model served
\* was loaded from the artifact of the version the registry marks active.
C3_ServedIsActive ==
    (/\ Quiescent
     /\ model # None
     /\ Cardinality(ActiveSet(versions)) = 1
     /\ \A r \in Runs : run[r].outcome # "failed"
     /\ \/ \E r \in Runs : run[r].outcome = "success"
        \/ \E b \in Rollbacks : rb[b].outcome = "success")
    => \A v \in ActiveSet(versions) : model.art = verArt[v]

\* C4: a retraining task that ends failed or skipped has changed neither the
\* active version, nor any feedback row's used_in_training and
\* model_version_id, nor the model object served.
C4_FailedRunChangesNothing ==
    \A r \in Runs :
        (run[r].pc = "done" /\ run[r].outcome \in {"failed", "skipped"})
        => ~run[r].touched

\* C9: when a successful deploy returns, the version it created is the one
\* active version, with activated_at set, and every version that was active
\* before the call has is_active = false and a deactivated_at.
DeployReturnsFlipped ==
    \A r \in Runs :
        (run[r].pc = "copy" /\ run'[r].pc = "reload")
        => /\ ActiveSet(versions') = {run[r].ver}
           /\ versions'[run[r].ver].activated_at # NULL
           /\ \A v \in run[r].activeAtStart :
                ~versions'[v].is_active /\ versions'[v].deactivated_at # NULL

C9_DeployFlipsActive == [][DeployReturnsFlipped]_vars

\* C10: when a successful deploy returns, every feedback row that was unused
\* immediately before the call is used, with the id of the version the deploy
\* created as its model_version_id, and every row that was used already has
\* kept its model_version_id.
DeployReturnsMarked ==
    \A r \in Runs :
        (run[r].pc = "copy" /\ run'[r].pc = "reload")
        => \A f \in feedback' :
             /\ f.id \in run[r].unusedAtStart
                => (f.used_in_training /\ f.model_version_id = run[r].ver)
             /\ \A u \in run[r].usedAtStart :
                  u[1] = f.id => f.model_version_id = u[2]

C10_DeployMarksFeedback == [][DeployReturnsMarked]_vars

\* C11: when a successful rollback to v returns, v has is_active = true and
\* no deactivated_at, and every other version has is_active = false; also
\* when v was the active version already.
RollbackReturnsActive ==
    \A b \in Rollbacks :
        (rb[b].pc = "commit" /\ rb'[b].pc = "reload")
        => /\ ActiveSet(versions') = {rb[b].target}
           /\ versions'[rb[b].target].deactivated_at = NULL

C11_RollbackActivatesTarget == [][RollbackReturnsActive]_vars

\* C12: a rollback to an id that does not exist, or whose artifact file is
\* missing, ends with an error and changes no model version row, no feedback
\* row and not the model served; it attempts no reload.
RollbackErrorStep ==
    \A b \in Rollbacks :
        (rb[b].pc = "idle" /\ rb'[b].pc # "idle"
            /\ \/ rb'[b].target \notin DOMAIN versions
               \/ ~Exists(VerPath(versions[rb'[b].target].version)))
        => /\ rb'[b].outcome = "error"
           /\ rb'[b].pc = "done"
           /\ UNCHANGED <<versions, feedback, files, coreVars, hs, tx>>

C12_RollbackErrorChangesNothing ==
    /\ [][RollbackErrorStep]_vars
    /\ [](\A b \in Rollbacks : rb[b].outcome = "error" => hs[b].pc = "idle")

C12_Witness ==
    \E b \in Rollbacks :
        /\ rb[b].outcome = "error"
        /\ rb[b].target \in DOMAIN versions
        /\ ~Exists(VerPath(versions[rb[b].target].version))
        /\ ActiveSet(versions) # {}
        /\ model # None

(***************************************************************************)
(* Properties of the feedback store                                        *)
(***************************************************************************)
\* C13: in every reachable state every feedback record is a correction
\* exactly when its corrected label differs from the original prediction.
C13_CorrectionIffLabelDiffers ==
    \A f \in feedback : f.is_correction = (f.corrected_label # f.original_prediction)

\* C14: what submit stores matches the reference.  Confirmed: the item's
\* original prediction as corrected label, not a correction.  Not confirmed
\* with label L: L as corrected label, a correction, for both values of L.
\* Not confirmed without a label, or an item that does not exist: an error,
\* and no feedback record created or changed.
SubmitMatchesReference ==
    (vcalls'.last.seq # vcalls.last.seq /\ vcalls'.last.op = "submit")
    => LET c == vcalls'.last IN
       IF c.item \notin Items
       THEN fbResult' = "ScanResultNotFoundError" /\ feedback' = feedback
       ELSE IF ~c.is_correct /\ c.label = <<>>
       THEN fbResult' = "ValidationError" /\ feedback' = feedback
       ELSE /\ fbResult' = "ok"
            /\ \E f \in feedback' :
                 /\ f.scan_result_id = c.item /\ f.user_id = c.user
                 /\ f.original_prediction = ItemPred(c.item)
                 /\ f.corrected_label = IF c.is_correct THEN ItemPred(c.item) ELSE c.label[1]
                 /\ f.is_correction = ~c.is_correct
            /\ \A f \in feedback' :
                 (f.scan_result_id # c.item \/ f.user_id # c.user) => f \in feedback

UndoMatchesReference ==
    (vcalls'.last.seq # vcalls.last.seq /\ vcalls'.last.op = "undo")
    => LET c == vcalls'.last
           rows == {f \in feedback : f.id = c.id}
       IN
       IF rows = {} \/ \A f \in rows : f.user_id # c.user
       THEN fbResult' = "ValidationNotFoundError" /\ feedback' = feedback
       ELSE IF \E f \in rows : now - f.validated_at > UNDO_WINDOW_SECONDS
       THEN fbResult' = "UndoWindowExpiredError" /\ feedback' = feedback
       ELSE fbResult' = "ok" /\ feedback' = feedback \ rows

C15_UndoWithinWindow == [][UndoMatchesReference]_vars

C15_Witness ==
    /\ vcalls.last.op = "undo" /\ fbResult = "ok"
    /\ vcalls.elapsed = UNDO_WINDOW_SECONDS
    /\ \A f \in feedback : f.id # vcalls.last.id

\* C16: a record whose undo window has expired is permanent.  Whatever
\* happens afterwards (a re-submission for its item and user, a deploy that
\* marks it), no step deletes it, and every undo on it fails with
\* WindowExpired.
ExpiredStays ==
    \A id \in vcalls.expired :
        (\E f \in feedback : f.id = id)
        => /\ \E f \in feedback' : f.id = id
           /\ (vcalls'.last.seq # vcalls.last.seq /\ vcalls'.last.op = "undo"
                  /\ vcalls'.last.id = id
                  /\ \E f \in feedback : f.id = id /\ f.user_id = vcalls'.last.user)
              => fbResult' = "UndoWindowExpiredError"

C16_ExpiredIsPermanent == [][ExpiredStays]_vars

\* C17: there is never more than one feedback record per (item, user), two
\* submits for the same pair racing included; and a submit that succeeds
\* for a pair that has a record keeps that record (same id, no new row) and
\* leaves it with used_in_training = false.
OnePerPair ==
    \A f, g \in feedback :
        (f.scan_result_id = g.scan_result_id /\ f.user_id = g.user_id) => f.id = g.id

UpdatesInPlace ==
    \A s \in Submitters :
        LET c == vcalls.open[s]
            rows == {f \in feedback : f.scan_result_id = c.item /\ f.user_id = c.user}
        IN
        (c.pc = "read" /\ vcalls'.open[s].pc = "done" /\ vcalls'.open[s].result = "ok"
           /\ rows # {})
        => \A e \in rows :
              /\ {f.id : f \in feedback'} = {f.id : f \in feedback}
              /\ \E f \in feedback' : f.id = e.id /\ ~f.used_in_training

C17_OneRecordPerPair == [][OnePerPair' /\ UpdatesInPlace]_vars

\* C19: batch_submit over N ids answers total_submitted = N and
\* successful + failed = N, with one entry in validations per success and one
\* in errors per failure; every id of the list is tried, whatever failed
\* before it, and the turn of an id that fails changes no feedback record.
Applicable(b) == {k \in 1..Len(b.result_ids) : b.result_ids[k] \in Items}

BatchStep ==
    LET b == vcalls.batch
        a == vcalls'.batch
    IN
    /\ (b.pc = "loop" /\ a.pc = "done")
       => /\ a.total_submitted = Len(a.result_ids)
          /\ a.successful + a.failed = Len(a.result_ids)
          /\ Len(a.validations) = a.successful
          /\ Len(a.errors) = a.failed
          /\ a.successful = Cardinality(Applicable(a))
    /\ (b.pc = "loop" /\ a.failed = b.failed + 1)
       => /\ feedback' = feedback
          /\ a.i = b.i + 1
          /\ a.successful = b.successful /\ a.validations = b.validations
    /\ (b.pc = "loop" /\ a.successful = b.successful + 1)
       => /\ a.i = b.i + 1
          /\ \E f \in feedback' :
                /\ f.scan_result_id = b.result_ids[b.i] /\ f.user_id = b.user
                /\ f.id = a.validations[Len(a.validations)]
          /\ \A f \in feedback :
                (f.scan_result_id # b.result_ids[b.i] \/ f.user_id # b.user)
                => f \in feedback'

C19_BatchNeverRollsBack == [][BatchStep]_vars

C19_Witness ==
    LET b == vcalls.batch IN
    /\ b.pc = "done" /\ Len(b.result_ids) = 2
    /\ b.result_ids[1] \notin Items /\ b.result_ids[2] \in Items
    /\ b.failed = 1 /\ b.successful = 1
    /\ \E f \in feedback : f.id = b.validations[1]

\* C20: the data get_training_data returns has exactly one row per distinct
\* comment text of the base corpus and of all the feedback records, used in
\* training or not; a text that a feedback record carries has the label of
\* feedback (1 for true, 0 for false), also when the base corpus has it with
\* another label.
Comments(df) == {df[k].comment : k \in DOMAIN df}

AssembleStep ==
    (training'.calls # training.calls)
    => LET data == training'.data IN
       /\ Comments(data) = Comments(training'.corpus) \cup {f.comment_text : f \in feedback}
       /\ \A j, k \in DOMAIN data : data[j].comment = data[k].comment => j = k
       /\ \A k \in DOMAIN data :
             (\E f \in feedback : f.comment_text = data[k].comment)
             => \E f \in feedback :
                   /\ f.comment_text = data[k].comment
                   /\ data[k].label = IF f.corrected_label THEN 1 ELSE 0

RowSet(df) == {df[k] : k \in DOMAIN df}

OrderInsignificant ==
    (training'.calls # training.calls)
    => \A validations \in Orders(feedback) :
          RowSet(DropDuplicates(training'.corpus \o ValidationData(validations)))
             = RowSet(training'.data)

C21_OrderInsignificant == [][OrderInsignificant]_vars

\* C22: a retraining run whose data has fewer rows than the minimum-sample
\* floor goes no further than loading it: it ends with outcome skipped,
\* without fitting or deploying anything, and not with outcome failed.
C22_SmallDataIsSkipped ==
    \A r \in Runs :
        (run[r].small /\ run[r].pc # "training")
        => run[r].pc = "done" /\ run[r].outcome = "skipped"

\* C23: within one retraining run the reported progress percentage never
\* goes down, from the first update to the terminal report, whether the run
\* succeeds, is skipped or fails.
ProgressGrows == \A r \in Runs : run[r].progress <= run'[r].progress

C23_ProgressMonotone == [][ProgressGrows]_vars

\* C24: when a submission takes the number of feedback records with
\* used_in_training = false from below the threshold to the threshold or
\* above, the threshold check is true after that submission and one
\* automatic retraining job is triggered for it; and no automatic job
\* exists that was triggered while the count was below the threshold.
AutomaticJobs == {r \in Runs : run[r].triggered_by = "automatic"}

CrossingTriggers ==
    /\ (~CheckRetrainingThreshold /\ CheckRetrainingThreshold')
       => Cardinality(AutomaticJobs') = Cardinality(AutomaticJobs) + 1
    /\ (~CheckRetrainingThreshold /\ ~CheckRetrainingThreshold')
       => AutomaticJobs' = AutomaticJobs

C24_CrossingTriggersOneJob == [][CrossingTriggers]_vars

\* C25 as stated: a run whose deploy failed with ModelDeploymentError (the
\* artifact could not be written) is handed back to the scheduler to be
\* retried, it does not end in a terminal failed outcome.
C25_DeploymentErrorIsRetried ==
    \A r \in Runs : run[r].reason = "deployment_error" => run[r].raised

\* C25 amended: a run whose deploy fails with ModelDeploymentError ends there
\* with the terminal outcome failed, reason deployment_error, without
\* raising: it is not handed back for a retry.  The failed write has changed
\* neither the registry nor the feedback nor the artifact storage.
DeploymentErrorStep ==
    \A r \in Runs :
        (run[r].pc = "deploy" /\ run'[r].pc = "done")
        => /\ run'[r].outcome = "failed" /\ run'[r].reason = "deployment_error"
           /\ ~run'[r].raised
           /\ UNCHANGED <<versions, feedback, files>>

C25_DeploymentErrorIsTerminal ==
    [][DeploymentErrorStep]_vars
    /\ [](\A r \in Runs : run[r].reason = "deployment_error"
                              => run[r].pc = "done" /\ ~run[r].raised)

C25_Witness ==
    \E r \in Runs : /\ run[r].pc = "done" /\ run[r].reason = "deployment_error"
                     /\ run[r].outcome = "failed" /\ run[r].art # 0

\* C26: a deploy that generates its version identifier gets one that no
\* registered version has, also when two deploys start within the same
\* second, and so writing its artifact leaves the artifact file of every
\* registered version as it was.
FreshVersionStep ==
    \A r \in Runs :
        (run[r].pc = "deploy" /\ run'[r].pc = "deactivate")
        => \A v \in DOMAIN versions :
              /\ versions[v].version # run'[r].version
              /\ files'[VerPath(versions[v].version)] = files[VerPath(versions[v].version)]

C26_FreshVersion == [][FreshVersionStep]_vars

\* C30: a load_model(path) call that raises ModelLoadError changes nothing:
\* no model is installed and the path a later reload_model() without a path
\* goes to is the one it went to before the call, not the path that failed.
FailedLoadStep ==
    \A p \in Predictors :
        (pr[p].pc = "idle" /\ pr'[p].kind = "load" /\ pr'[p].error)
        => /\ model' = model
           /\ ResolvePath(NoPath)' = ResolvePath(NoPath)

C30_FailedLoadChangesNothing == [][FailedLoadStep]_vars

\* C18: for every feedback record, used_in_training is true exactly when
\* model_version_id is set.
C18_UsedIffVersioned ==
    \A f \in feedback : f.used_in_training <=> f.model_version_id # NULL

(***************************************************************************)
(* Properties of PredictionService                                         *)
(***************************************************************************)
\* a reload_model call between setting and clearing _is_reloading
InFlight(h) == h.pc \in {"entered", "loaded", "finally"}

\* C5: hot_swap is single-flight.  At most one reload_model call is between
\* setting and clearing the in-progress flag, and a call that starts while
\* another one is there returns false in that same step: it loads nothing and
\* changes neither the served model, nor the recorded path, nor the flag.
SingleFlightStep ==
    /\ Cardinality({c \in Callers : InFlight(hs'[c])}) <= 1
    /\ \A c \in Callers :
         (/\ hs[c].pc = "idle"
          /\ hs'[c].pc # "idle"
          /\ \E d \in Callers \ {c} : InFlight(hs[d]))
         => /\ hs'[c].pc = "ret"
            /\ hs'[c].result = FALSE
            /\ hs'[c].new = None
            /\ UNCHANGED <<model, model_path, is_reloading>>

C5_SingleFlight == [][SingleFlightStep]_vars

C5_Witness ==
    \E c, d \in Callers :
        /\ hs[c].pc = "ret" /\ hs[c].rejected /\ ~hs[c].result
        /\ hs[d].pc = "loaded"

\* C6: a reload_model call that returns false (missing path, load error)
\* leaves the served model object and the recorded model path as they were
\* when the call started, and so does any number of failed calls in a row.
C6_FailedSwapLeavesState ==
    /\ \A c \in Callers :
         (hs[c].pc = "ret" /\ ~hs[c].result /\ ~hs[c].disturbed)
         => (model = hs[c].entryModel /\ model_path = hs[c].entryPath)
    /\ streak.n > 0 => (model = streak.model /\ model_path = streak.path)

C6_Witness ==
    /\ streak.n >= 2
    /\ model # None
    /\ \E c \in Callers :
         /\ hs[c].pc = "ret" /\ ~hs[c].result /\ ~hs[c].rejected /\ ~hs[c].disturbed
         /\ hs[c].path = MissingPath

\* C7: a prediction call that starts after a reload_model call has returned
\* true, and before any later swap, computes its class prediction and its
\* probabilities with the object that call installed.
C7_PredictSeesInstalled ==
    \A p \in Predictors :
        (pr[p].after # 0 /\ ~pr[p].error)
        => /\ pr[p].m.obj = pr[p].after
           /\ pr[p].predBy \in {0, pr[p].after}
           /\ pr[p].probaBy \in {0, pr[p].after}

C7_Witness ==
    \E p \in Predictors :
        /\ pr[p].pc = "done" /\ pr[p].after # 0
        /\ pr[p].predBy = pr[p].after /\ pr[p].probaBy = pr[p].after
        /\ model.obj = pr[p].after

\* C8: a prediction call reads the shared reference once, when it starts, and
\* computes its class prediction and its probabilities for all its texts with
\* that object, whatever swaps happen while it runs.
C8_OneModelPerCall ==
    \A p \in Predictors :
        /\ pr[p].pc \in {"read", "predicted"} => pr[p].m.obj = pr[p].atStart
        /\ pr[p].predBy # 0 => pr[p].predBy = pr[p].atStart
        /\ pr[p].probaBy # 0 => pr[p].probaBy = pr[p].atStart
        /\ (pr[p].pc = "done" /\ ~pr[p].error /\ pr[p].n > 0)
           => (pr[p].predBy # 0 /\ pr[p].probaBy # 0 /\ pr[p].out = pr[p].n)

C8_Witness ==
    \E p \in Predictors :
        /\ pr[p].pc = "done" /\ pr[p].kind = "batch" /\ pr[p].n > 0
        /\ pr[p].probaBy = pr[p].atStart
        /\ model.obj # pr[p].atStart

\* a prediction call that takes its copy of the reference while a reload is
\* in progress takes the model that is current at that moment and moves no
\* reload_model call
ReadDuringLoadStep ==
    \A p \in Predictors :
        (pr[p].pc = "idle" /\ pr'[p].pc = "read" /\ is_reloading /\ model # None)
        => /\ pr'[p].m = model
           /\ model' = model
           /\ hs' = hs

\* while a reload_model call is loading the new model no call holds the lock,
\* and a prediction call that has not started can take its step
LoadLeavesLockFree ==
    \A c \in Callers :
        hs[c].pc = "entered"
        => /\ \A d \in Callers : ~hs[d].locked
           /\ \A p \in Predictors :
                 pr[p].pc = "idle" => ENABLED PredictRead(p, "single", 1)

\* C27: while reload_model loads the new model it does not hold the model
\* lock, so a prediction call that starts during the load acquires the lock,
\* reads the current (old) reference and completes without waiting for the
\* load to finish.
C27_LoadDoesNotBlockPredict == [](LoadLeavesLockFree) /\ [][ReadDuringLoadStep]_vars

C27_Witness ==
    \E c \in Callers, p \in Predictors :
        /\ hs[c].pc = "entered"
        /\ pr[p].pc = "done" /\ pr[p].kind = "single" /\ pr[p].loading /\ ~pr[p].error
        /\ model # None /\ pr[p].m = model
        /\ pr[p].predBy = model.obj /\ pr[p].probaBy = model.obj

\* an accepted reload_model call between its entry check and its exit
Running(c) == InFlight(hs[c]) /\ ~hs[c].rejected

\* _is_reloading is set exactly while an accepted call is running
FlagWhileRunning == is_reloading <=> \E c \in Callers : Running(c)

\* a call is turned away only while another one is running, and being turned
\* away leaves the flag set
RejectedStep ==
    \A c \in Callers :
        (hs[c].pc = "idle" /\ hs'[c].pc # "idle" /\ hs'[c].rejected)
        => /\ \E d \in Callers \ {c} : Running(d)
           /\ is_reloading /\ is_reloading'

\* C29: the in-progress flag of reload_model is true exactly while some
\* accepted call is between its entry check and its exit; a rejected attempt
\* never clears it, every accepted attempt clears it on every exit path, so no
\* call is rejected as already in progress when no swap is running.
C29_FlagExactlyWhileRunning == [](FlagWhileRunning) /\ [][RejectedStep]_vars

\* an attempt was turned away, the accepted one then failed to load and has
\* returned, and the flag is clear again
C29_Witness ==
    \E c, d \in Callers :
        /\ c # d
        /\ hs[c].pc = "ret" /\ hs[c].rejected
        /\ hs[d].pc = "ret" /\ ~hs[d].rejected /\ ~hs[d].result
        /\ ~is_reloading

\* the rows a step has marked used_in_training
MarkedBy(before, after) ==
    {f.id : f \in {g \in after : g.used_in_training
                                  /\ \A e \in before : e.id = g.id => ~e.used_in_training}}

\* the rows the deploy of run r marks are rows its get_training_data read
MarksOnlyDataset ==
    \A r \in Runs :
        (run[r].pc = "mark" /\ run'[r].pc = "copy")
        => MarkedBy(feedback, feedback') \subseteq run[r].data

\* C28: every feedback row that a deploy marks used_in_training against
\* version v was part of the dataset v was trained on; a feedback submitted or
\* re-submitted after the run assembled its dataset and before its deploy step
\* is not marked as used by that deploy.
C28_MarkedWasTrainedOn == [][MarksOnlyDataset]_vars

====
